---- MODULE Spec2Model ----
(***************************************************************************)
(* Model of peer::ServerAuthenticator (source/peer/server_authenticator.cc)*)
(* of the Aspia project: the server side of the handshake                  *)
(*   ClientHello -> ServerHello -> (SrpIdentify -> SrpServerKeyExchange -> *)
(*   SrpClientKeyExchange)? -> SessionChallenge -> SessionResponse.        *)
(*                                                                         *)
(* The authenticator object is the record `auth`; every method of the      *)
(* class is an operator that takes the object and returns the object after *)
(* the call.  Byte strings are sequences of naturals, big numbers are      *)
(* naturals (Invalid for an invalid BigNum), hashes are tagged             *)
(* concatenations, and SRP / ECDH are computed in small prime groups.      *)
(***************************************************************************)
EXTENDS Integers, Sequences, FiniteSets, TLC

VARIABLES auth,    \* the ServerAuthenticator under study
          twin,    \* a second ServerAuthenticator, fed the same input (pair runs)
          aes_ni   \* base::CPUID::hasAesNi() of the host

vars == <<auth, twin, aes_ni>>

---------------------------------------------------------------------------
(* Bounds of the model *)

\* session-type masks are MaskBits wide
MaskBits == 3
\* the server's SRP secret b is drawn from 1..MaxB
MaxB == 2

---------------------------------------------------------------------------
(* Program constants *)

kIvSize == 12

ENCRYPTION_AES256_GCM == 1
ENCRYPTION_CHACHA20_POLY1305 == 2
IDENTIFY_SRP == 1
IDENTIFY_ANONYMOUS == 2
\* User::ENABLED
ENABLED_FLAG == 1

---------------------------------------------------------------------------
(* Bit masks (uint32_t used as a set of bits) *)

RECURSIVE BitAnd(_, _)
BitAnd(x, y) ==
    IF x = 0 \/ y = 0 THEN 0
    ELSE (IF x % 2 = 1 /\ y % 2 = 1 THEN 1 ELSE 0) + 2 * BitAnd(x \div 2, y \div 2)

RECURSIVE BitCount(_)
\* base::BitSet<uint32_t>::count()
BitCount(x) == IF x = 0 THEN 0 ELSE (x % 2) + BitCount(x \div 2)

\* base::BitSet<uint32_t>::value(): the stored word itself
BitValue(x) == x

RECURSIVE Pow2(_)
Pow2(n) == IF n = 0 THEN 1 ELSE 2 * Pow2(n - 1)

Masks == 0 .. (Pow2(MaskBits) - 1)

---------------------------------------------------------------------------
(* Byte arrays, big numbers, hashes *)

Empty == <<>>

\* an invalid base::BigNum
Invalid == -1

\* base::BigNum::fromStdString / fromByteArray: an empty string gives an
\* invalid number, otherwise the number the bytes encode
BigNumFromBytes(bytes) == IF bytes = Empty THEN Invalid ELSE bytes[1]

\* base::BigNum::toStdString / toByteArray
BigNumToBytes(n) == IF n = Invalid THEN Empty ELSE <<n>>

BigNumIsValid(n) == n # Invalid

\* base::GenericHash: the digest of the concatenation of the data added,
\* tagged with the algorithm (injective, never empty)
BLAKE2s256(data) == <<256>> \o data
BLAKE2b512(data) == <<512>> \o data

\* base::Random::byteArray(size): `fill` is the draw; a failed generator
\* returns an empty array (the caller of setPrivateKey checks for it)
RandomByteArray(size, fill) == IF fill = 0 THEN Empty ELSE [i \in 1 .. size |-> fill]

\* what the generator can return for an IV
IvDraws == {0, 1}

RECURSIVE ModExp(_, _, _)
ModExp(base, e, n) == IF e = 0 THEN 1 % n ELSE (base * ModExp(base, e - 1, n)) % n

---------------------------------------------------------------------------
(* SRP groups and SRP-6a arithmetic *)

\* base::pairByGroup: the table of safe-prime groups, as <<N, g>>
SrpGroupTable == [g8192 |-> <<7, 3>>, g3072 |-> <<5, 2>>]
KnownGroups == {"g8192", "g3072"}
kSrpNgPair_8192 == SrpGroupTable.g8192

pairByGroupHasValue(group) == group \in KnownGroups
pairByGroup(group) == IF group = "g8192" THEN SrpGroupTable.g8192 ELSE SrpGroupTable.g3072

\* names and passwords as the numbers the hashes see
Code(str) ==
    CASE str = "alice" -> 1 [] str = "bob" -> 2 [] str = "carol" -> 3
      [] str = "dave" -> 4 [] str = "ghost" -> 5 [] str = "pw-a" -> 6
      [] str = "pw-b" -> 7 [] str = "pw-x" -> 8 [] str = "seed" -> 9
      [] OTHER -> 0

\* k = H(N || PAD(g))
SrpCalc_k(N, g) == 1 + ((N + g) % 3)
\* x = H(s || H(I || ':' || p))
SrpCalc_x(s, I, p) == 1 + ((s + 2 * Code(I) + 3 * p) % 4)
\* u = H(PAD(A) || PAD(B))
SrpCalc_u(A, B, N) == 1 + ((A + 2 * B) % 3)
\* v = g^x mod N
SrpCalc_v(I, p, s, N, g) == ModExp(g, SrpCalc_x(s, I, p), N)
\* B = (k*v + g^b) mod N
SrpCalc_B(b, N, g, v) ==
    IF N = Invalid \/ g = Invalid \/ v = Invalid THEN Invalid
    ELSE (SrpCalc_k(N, g) * v + ModExp(g, b, N)) % N
\* S = (A * v^u)^b mod N
SrpCalcServerKey(A, v, u, b, N) == ModExp((A * ModExp(v, u, N)) % N, b, N)
\* (A mod N) != 0
SrpVerify_A_mod_N(A, N) == A % N # 0

---------------------------------------------------------------------------
(* The user list *)

InvalidUser ==
    [name |-> "", group |-> "", salt |-> Empty, verifier |-> Empty,
     sessions |-> 0, flags |-> 0]

\* peer::User::isValid
UserIsValid(user) ==
    user.name # "" /\ user.salt # Empty /\ user.verifier # Empty /\ user.group # ""

\* the password of each account, known to its owner only
Password(name) == IF name = "alice" THEN "pw-a" ELSE "pw-b"

\* peer::User::create: salt, and the verifier of the password in the group
MakeUser(name, group, salt, sessions, flags) ==
    [name |-> name, group |-> group, salt |-> <<salt>>,
     verifier |-> IF pairByGroupHasValue(group)
                  THEN <<SrpCalc_v(name, Code(Password(name)), salt,
                                   pairByGroup(group)[1], pairByGroup(group)[2])>>
                  ELSE <<1>>,
     sessions |-> sessions, flags |-> flags]

\* alice and bob are ordinary accounts, carol is disabled, dave's record
\* names a group the table does not have; "ghost" is in no list
Users ==
    [alice |-> MakeUser("alice", "g8192", 2, 3, ENABLED_FLAG),
     bob   |-> MakeUser("bob", "g3072", 1, Pow2(MaskBits - 1), ENABLED_FLAG),
     carol |-> MakeUser("carol", "g8192", 3, 1, 0),
     dave  |-> MakeUser("dave", "g999", 1, 2, ENABLED_FLAG)]

UsersWithoutAlice ==
    [bob   |-> Users.bob, carol |-> Users.carol, dave |-> Users.dave]

NoUserList == [seed |-> Empty, users |-> <<>>, null |-> TRUE]
UserListA == [seed |-> <<Code("seed")>>, users |-> Users, null |-> FALSE]
UserListB == [seed |-> <<Code("seed")>>, users |-> UsersWithoutAlice, null |-> FALSE]
UserLists == {UserListA, UserListB}

\* the list without bob
UserListC ==
    [seed |-> <<Code("seed")>>,
     users |-> [alice |-> Users.alice, carol |-> Users.carol, dave |-> Users.dave],
     null |-> FALSE]

\* UserList::find: the record, or the invalid sentinel
UserListFind(list, name) ==
    IF name \in DOMAIN list.users THEN list.users[name] ELSE InvalidUser

\* UserList::seedKey
UserListSeedKey(list) == list.seed

\* base::utf16FromUtf8: an ill-formed string converts to the empty string
BadUtf8 == "\\xff"
utf16FromUtf8(str) == IF str = BadUtf8 THEN "" ELSE str

---------------------------------------------------------------------------
(* The key pair (ECDH in the group of order 11 generated by 2 mod 23) *)

DhGroup == <<23, 2>>

NoKeyPair == [valid |-> FALSE, private |-> 0]

\* base::KeyPair::fromPrivateKey: a key of value 0 is not a key
KeyPairFromPrivateKey(private_key) ==
    IF private_key[1] = 0 THEN NoKeyPair ELSE [valid |-> TRUE, private |-> private_key[1]]

KeyPairPublicKey(key_pair) == <<ModExp(DhGroup[2], key_pair.private, DhGroup[1])>>

\* base::KeyPair::sessionKey: the shared secret, or empty for a malformed
\* peer key
KeyPairSessionKey(key_pair, peer_public_key) ==
    IF peer_public_key[1] = 0 THEN Empty
    ELSE <<ModExp(peer_public_key[1], key_pair.private, DhGroup[1])>>

---------------------------------------------------------------------------
(* The authenticator object *)

\* the object after construction (member initialisers of Authenticator and
\* ServerAuthenticator), with the log of the channel
NewAuthenticator ==
    [state            |-> "STOPPED",
     result           |-> "NONE",
     finished         |-> 0,
     pump             |-> TRUE,
     pending_write    |-> FALSE,
     key_changes      |-> 0,
     channel_key      |-> Empty,
     wire             |-> <<>>,
     notreached       |-> FALSE,
     peer_version     |-> 0,
     user_list        |-> NoUserList,
     key_pair         |-> NoKeyPair,
     anonymous_access |-> "DISABLE",
     internal_state   |-> "READ_CLIENT_HELLO",
     identify         |-> IDENTIFY_SRP,
     encryption       |-> 0,
     session_types    |-> 0,
     session_type     |-> 0,
     encrypt_iv       |-> Empty,
     decrypt_iv       |-> Empty,
     session_key      |-> Empty,
     user_name        |-> "",
     user             |-> InvalidUser,
     N |-> Invalid, g |-> Invalid, s |-> Invalid, v |-> Invalid,
     b |-> Invalid, B |-> Invalid, A |-> Invalid]

\* Authenticator::finish: the first call delivers the result and ends the
\* handshake, a later one does nothing
finish(self, error_code) ==
    IF self.state = "DONE" THEN self
    ELSE [self EXCEPT !.state = "DONE", !.result = error_code,
                      !.finished = @ + 1]

\* Authenticator::sendMessage: hands the record to the channel; the channel
\* reports the completed write through onWritten
sendMessage(self, message) ==
    [self EXCEPT !.wire = Append(@, [dir |-> "out", kind |-> message.kind, msg |-> message]),
                 !.pending_write = TRUE]

\* Authenticator::onSessionKeyChanged: the channel installs the new key;
\* `ok` is the value the hook returns, and false stops the pump
onSessionKeyChanged(self, ok) ==
    [self EXCEPT !.key_changes = @ + 1,
                 !.channel_key = IF ok THEN self.session_key ELSE @,
                 !.pump = ok]

\* base::parse: the buffer decodes iff it holds a record of the wanted type
parse(buffer, kind) == buffer.kind = kind

\* LOG(LS_INFO) << "Received: ...": the record a handler was given
received(self, kind, buffer) ==
    [self EXCEPT !.wire = Append(@, [dir |-> "in", kind |-> kind, msg |-> buffer])]

---------------------------------------------------------------------------
(* Configuration *)

setUserList(self, user_list) == [self EXCEPT !.user_list = user_list]

\* the object after the call; `fill` is the draw of the random generator
setPrivateKey(self, private_key, fill) ==
    IF self.state # "STOPPED" THEN self
    ELSE IF private_key = Empty THEN self
    ELSE LET s1 == [self EXCEPT !.key_pair = KeyPairFromPrivateKey(private_key)]
         IN  IF ~s1.key_pair.valid THEN s1
             ELSE [s1 EXCEPT !.encrypt_iv = RandomByteArray(kIvSize, fill)]

\* the value setPrivateKey returns
setPrivateKeyResult(self, private_key, fill) ==
    /\ self.state = "STOPPED"
    /\ private_key # Empty
    /\ KeyPairFromPrivateKey(private_key).valid
    /\ RandomByteArray(kIvSize, fill) # Empty

setAnonymousAccess(self, anonymous_access, session_types) ==
    IF self.state # "STOPPED" THEN self
    ELSE IF anonymous_access = "ENABLE"
         THEN IF ~self.key_pair.valid THEN self
              ELSE IF session_types = 0 THEN self
              ELSE [self EXCEPT !.session_types = session_types,
                                !.anonymous_access = anonymous_access]
         ELSE [self EXCEPT !.session_types = 0,
                           !.anonymous_access = anonymous_access]

\* the value setAnonymousAccess returns
setAnonymousAccessResult(self, anonymous_access, session_types) ==
    /\ self.state = "STOPPED"
    /\ anonymous_access = "ENABLE" => (self.key_pair.valid /\ session_types # 0)

\* onStarted without the check of the DISABLE branch
onStarted_NoDisableCheck(self) ==
    LET s1 == [self EXCEPT !.internal_state = "READ_CLIENT_HELLO"]
    IN  IF s1.anonymous_access = "ENABLE" /\ ~s1.key_pair.valid
        THEN finish(s1, "UNKNOWN_ERROR")
        ELSE IF s1.anonymous_access = "ENABLE"
             THEN IF ~s1.key_pair.valid THEN finish(s1, "UNKNOWN_ERROR")
                  ELSE IF s1.session_types = 0 THEN finish(s1, "UNKNOWN_ERROR")
                  ELSE s1
             ELSE s1

onStarted(self) ==
    LET s1 == [self EXCEPT !.internal_state = "READ_CLIENT_HELLO"]
    IN  IF s1.anonymous_access = "ENABLE" /\ ~s1.key_pair.valid
        THEN finish(s1, "UNKNOWN_ERROR")
        ELSE IF s1.anonymous_access = "ENABLE"
             THEN IF ~s1.key_pair.valid THEN finish(s1, "UNKNOWN_ERROR")
                  ELSE IF s1.session_types = 0 THEN finish(s1, "UNKNOWN_ERROR")
                  ELSE s1
             ELSE IF s1.session_types # 0 THEN finish(s1, "UNKNOWN_ERROR")
                  ELSE s1

\* the value onStarted returns
onStartedResult(self) ==
    IF self.anonymous_access = "ENABLE" /\ ~self.key_pair.valid THEN FALSE
    ELSE IF self.anonymous_access = "ENABLE"
         THEN IF ~self.key_pair.valid THEN FALSE
              ELSE IF self.session_types = 0 THEN FALSE
              ELSE TRUE
         ELSE IF self.session_types # 0 THEN FALSE
              ELSE TRUE

\* Authenticator::start: STOPPED -> PENDING, then onStarted
start(self) == onStarted([self EXCEPT !.state = "PENDING"])

---------------------------------------------------------------------------
(* The handshake *)

\* sendServerHello that takes AES whenever the client offers it
sendServerHello_IgnoreCpu(self, client_hello, iv) ==
    LET server_hello ==
            [kind       |-> "ServerHello",
             encryption |-> IF BitAnd(client_hello.encryption, ENCRYPTION_AES256_GCM) # 0
                            THEN ENCRYPTION_AES256_GCM
                            ELSE ENCRYPTION_CHACHA20_POLY1305,
             iv         |-> iv]
    IN  sendMessage([self EXCEPT !.internal_state = "SEND_SERVER_HELLO",
                                 !.encryption = server_hello.encryption],
                    server_hello)

\* lines 328-347 of onClientHello: the cipher, the next state, the reply
sendServerHello(self, client_hello, iv) ==
    LET server_hello ==
            [kind       |-> "ServerHello",
             encryption |-> IF BitAnd(client_hello.encryption, ENCRYPTION_AES256_GCM) # 0
                               /\ aes_ni
                            THEN ENCRYPTION_AES256_GCM
                            ELSE ENCRYPTION_CHACHA20_POLY1305,
             iv         |-> iv]
    IN  sendMessage([self EXCEPT !.internal_state = "SEND_SERVER_HELLO",
                                 !.encryption = server_hello.encryption],
                    server_hello)

\* clientHelloKeyExchange without the both-or-neither check
clientHelloKeyExchange_NoPairCheck(self, client_hello) ==
    IF self.key_pair.valid
    THEN LET peer_public_key == client_hello.public_key
             s1 == [self EXCEPT !.decrypt_iv = client_hello.iv]
         IN  IF peer_public_key # Empty /\ s1.decrypt_iv # Empty
             THEN LET temp == KeyPairSessionKey(s1.key_pair, peer_public_key)
                  IN  IF temp = Empty
                      THEN finish(s1, "UNKNOWN_ERROR")
                      ELSE sendServerHello([s1 EXCEPT !.session_key = BLAKE2s256(temp)],
                                           client_hello, s1.encrypt_iv)
             ELSE sendServerHello(s1, client_hello, Empty)
    ELSE sendServerHello(self, client_hello, Empty)

\* lines 296-326 of onClientHello: the optional ECDH envelope
clientHelloKeyExchange(self, client_hello) ==
    IF self.key_pair.valid
    THEN LET peer_public_key == client_hello.public_key
             s1 == [self EXCEPT !.decrypt_iv = client_hello.iv]
         IN  IF (peer_public_key = Empty) # (s1.decrypt_iv = Empty)
             THEN finish(s1, "PROTOCOL_ERROR")
             ELSE IF peer_public_key # Empty /\ s1.decrypt_iv # Empty
                  THEN LET temp == KeyPairSessionKey(s1.key_pair, peer_public_key)
                       IN  IF temp = Empty
                           THEN finish(s1, "UNKNOWN_ERROR")
                           ELSE LET s2 == [s1 EXCEPT !.session_key = BLAKE2s256(temp)]
                                IN  IF s2.session_key = Empty
                                    THEN finish(s2, "UNKNOWN_ERROR")
                                    ELSE sendServerHello(
                                             [s2 EXCEPT !.notreached =
                                                            @ \/ s2.encrypt_iv = Empty],
                                             client_hello, s2.encrypt_iv)
                  ELSE sendServerHello(s1, client_hello, Empty)
    ELSE sendServerHello(self, client_hello, Empty)

\* onClientHello without the anonymous-access check
onClientHello_AnonymousOpen(self, buffer) ==
    LET s0 == received(self, "ClientHello", buffer)
    IN  IF ~parse(buffer, "ClientHello")
        THEN finish(s0, "PROTOCOL_ERROR")
        ELSE IF BitAnd(buffer.encryption, ENCRYPTION_AES256_GCM) = 0
                /\ BitAnd(buffer.encryption, ENCRYPTION_CHACHA20_POLY1305) = 0
        THEN finish(s0, "PROTOCOL_ERROR")
        ELSE LET s1 == [s0 EXCEPT !.identify = buffer.identify]
             IN  CASE s1.identify \in {IDENTIFY_SRP, IDENTIFY_ANONYMOUS} ->
                          clientHelloKeyExchange(s1, buffer)
                   [] OTHER -> finish(s1, "PROTOCOL_ERROR")

\* onClientHello that goes on after the failed cipher check
onClientHello_NoReturn(self, buffer) ==
    LET s0 == received(self, "ClientHello", buffer)
    IN  IF ~parse(buffer, "ClientHello")
        THEN finish(s0, "PROTOCOL_ERROR")
        ELSE LET checked == IF BitAnd(buffer.encryption, ENCRYPTION_AES256_GCM) = 0
                               /\ BitAnd(buffer.encryption, ENCRYPTION_CHACHA20_POLY1305) = 0
                            THEN finish(s0, "PROTOCOL_ERROR")
                            ELSE s0
                 s1 == [checked EXCEPT !.identify = buffer.identify]
             IN  CASE s1.identify = IDENTIFY_SRP ->
                          clientHelloKeyExchange(s1, buffer)
                   [] s1.identify = IDENTIFY_ANONYMOUS ->
                          IF s1.anonymous_access # "ENABLE"
                          THEN finish(s1, "ACCESS_DENIED")
                          ELSE clientHelloKeyExchange(s1, buffer)
                   [] OTHER -> finish(s1, "PROTOCOL_ERROR")

onClientHello(self, buffer) ==
    LET s0 == received(self, "ClientHello", buffer)
    IN  IF ~parse(buffer, "ClientHello")
        THEN finish(s0, "PROTOCOL_ERROR")
        ELSE IF BitAnd(buffer.encryption, ENCRYPTION_AES256_GCM) = 0
                /\ BitAnd(buffer.encryption, ENCRYPTION_CHACHA20_POLY1305) = 0
        THEN finish(s0, "PROTOCOL_ERROR")
        ELSE LET s1 == [s0 EXCEPT !.identify = buffer.identify]
             IN  CASE s1.identify = IDENTIFY_SRP ->
                          clientHelloKeyExchange(s1, buffer)
                   [] s1.identify = IDENTIFY_ANONYMOUS ->
                          IF s1.anonymous_access # "ENABLE"
                          THEN finish(s1, "ACCESS_DENIED")
                          ELSE clientHelloKeyExchange(s1, buffer)
                   [] OTHER -> finish(s1, "PROTOCOL_ERROR")

\* phantomVerifier without the reset of session_types
phantomVerifier_KeepTypes(self, identify) ==
    LET hash == BLAKE2b512(UserListSeedKey(self.user_list) \o <<Code(identify.username)>>)
        N == kSrpNgPair_8192[1]
        g == kSrpNgPair_8192[2]
        s == hash[2] + hash[3]
    IN  [self EXCEPT !.N = N, !.g = g, !.s = s,
                     !.v = SrpCalc_v(self.user_name, UserListSeedKey(self.user_list)[1],
                                     s, N, g)]

\* lines 392-401 of onIdentify: the decoy made from the seed key
phantomVerifier(self, identify) ==
    LET hash == BLAKE2b512(UserListSeedKey(self.user_list) \o <<Code(identify.username)>>)
        N == kSrpNgPair_8192[1]
        g == kSrpNgPair_8192[2]
        \* the digest read as a number
        s == hash[2] + hash[3]
    IN  [self EXCEPT !.session_types = 0,
                     !.N = N, !.g = g, !.s = s,
                     !.v = SrpCalc_v(self.user_name, UserListSeedKey(self.user_list)[1],
                                     s, N, g)]

\* identifyUser that leaves session_types as configured for a known user
identifyUser_NoNarrow(self, identify) ==
    LET user == UserListFind(self.user_list, self.user_name)
        s1 == [self EXCEPT !.user = user]
    IN  IF UserIsValid(user) /\ BitAnd(user.flags, ENABLED_FLAG) # 0
        THEN IF pairByGroupHasValue(user.group)
             THEN [s1 EXCEPT !.N = pairByGroup(user.group)[1],
                             !.g = pairByGroup(user.group)[2],
                             !.s = BigNumFromBytes(user.salt),
                             !.v = BigNumFromBytes(user.verifier)]
             ELSE phantomVerifier(s1, identify)
        ELSE phantomVerifier(s1, identify)

\* lines 370-403 of onIdentify: the SRP parameters of the named user, or
\* of the decoy
identifyUser(self, identify) ==
    LET user == UserListFind(self.user_list, self.user_name)
        s1 == [self EXCEPT !.user = user]
    IN  IF UserIsValid(user) /\ BitAnd(user.flags, ENABLED_FLAG) # 0
        THEN LET s2 == [s1 EXCEPT !.session_types = user.sessions]
             IN  IF pairByGroupHasValue(user.group)
                 THEN [s2 EXCEPT !.N = pairByGroup(user.group)[1],
                                 !.g = pairByGroup(user.group)[2],
                                 !.s = BigNumFromBytes(user.salt),
                                 !.v = BigNumFromBytes(user.verifier)]
                 ELSE phantomVerifier(s2, identify)
        ELSE phantomVerifier(s1, identify)

\* `draw.b` and `draw.fill` are the draws of the random generator
onIdentify(self, buffer, draw) ==
    LET s0 == received(self, "SrpIdentify", buffer)
    IN  IF ~parse(buffer, "SrpIdentify")
        THEN finish(s0, "PROTOCOL_ERROR")
        ELSE LET s1 == [s0 EXCEPT !.user_name = utf16FromUtf8(buffer.username)]
             IN  IF s1.user_name = ""
                 THEN finish(s1, "PROTOCOL_ERROR")
                 ELSE LET s2 == identifyUser(s1, buffer)
                          s3 == [s2 EXCEPT !.b = draw.b,
                                           !.B = SrpCalc_B(draw.b, s2.N, s2.g, s2.v)]
                      IN  IF ~BigNumIsValid(s3.N) \/ ~BigNumIsValid(s3.g)
                             \/ ~BigNumIsValid(s3.s) \/ ~BigNumIsValid(s3.B)
                          THEN finish(s3, "PROTOCOL_ERROR")
                          ELSE LET s4 == [s3 EXCEPT
                                              !.internal_state = "SEND_SERVER_KEY_EXCHANGE",
                                              !.encrypt_iv = RandomByteArray(kIvSize, draw.fill)]
                               IN  sendMessage(s4,
                                       [kind      |-> "SrpServerKeyExchange",
                                        number    |-> BigNumToBytes(s4.N),
                                        generator |-> BigNumToBytes(s4.g),
                                        salt      |-> BigNumToBytes(s4.s),
                                        b         |-> BigNumToBytes(s4.B),
                                        iv        |-> s4.encrypt_iv])

\* createSrpKey without the check of A mod N
createSrpKey_NoVerify(self) ==
    LET u == SrpCalc_u(self.A, self.B, self.N)
        server_key == SrpCalcServerKey(self.A, self.v, u, self.b, self.N)
    IN  BigNumToBytes(server_key)

\* createSrpKey with the scrambling parameter u left out of the product
createSrpKey_WithoutU(self) ==
    IF ~SrpVerify_A_mod_N(self.A, self.N)
    THEN Empty
    ELSE BigNumToBytes(SrpCalcServerKey(self.A, self.v, 0, self.b, self.N))

createSrpKey(self) ==
    IF ~SrpVerify_A_mod_N(self.A, self.N)
    THEN Empty
    ELSE LET u == SrpCalc_u(self.A, self.B, self.N)
             server_key == SrpCalcServerKey(self.A, self.v, u, self.b, self.N)
         IN  BigNumToBytes(server_key)

doSessionChallenge(self) ==
    sendMessage(self, [kind |-> "SessionChallenge", session_types |-> self.session_types])

\* onClientKeyExchange that hashes the SRP key alone
onClientKeyExchange_SrpKeyOnly(self, buffer, draw) ==
    LET s0 == received(self, "SrpClientKeyExchange", buffer)
    IN  IF ~parse(buffer, "SrpClientKeyExchange")
        THEN finish(s0, "PROTOCOL_ERROR")
        ELSE LET s1 == [s0 EXCEPT !.A = BigNumFromBytes(buffer.a),
                                  !.decrypt_iv = buffer.iv]
             IN  IF ~BigNumIsValid(s1.A) \/ s1.decrypt_iv = Empty
                 THEN finish(s1, "PROTOCOL_ERROR")
                 ELSE LET srp_key == createSrpKey(s1)
                      IN  IF srp_key = Empty
                          THEN finish(s1, "UNKNOWN_ERROR")
                          ELSE IF s1.encryption \notin {ENCRYPTION_AES256_GCM,
                                                        ENCRYPTION_CHACHA20_POLY1305}
                          THEN finish(s1, "UNKNOWN_ERROR")
                          ELSE LET s2 == [s1 EXCEPT !.session_key = BLAKE2s256(srp_key)]
                                   s3 == onSessionKeyChanged(s2, draw.key_ok)
                               IN  IF ~draw.key_ok
                                   THEN s3
                                   ELSE doSessionChallenge(
                                            [s3 EXCEPT !.internal_state =
                                                           "SEND_SESSION_CHALLENGE"])

\* `draw.key_ok` is the value onSessionKeyChanged returns
onClientKeyExchange(self, buffer, draw) ==
    LET s0 == received(self, "SrpClientKeyExchange", buffer)
    IN  IF ~parse(buffer, "SrpClientKeyExchange")
        THEN finish(s0, "PROTOCOL_ERROR")
        ELSE LET s1 == [s0 EXCEPT !.A = BigNumFromBytes(buffer.a),
                                  !.decrypt_iv = buffer.iv]
             IN  IF ~BigNumIsValid(s1.A) \/ s1.decrypt_iv = Empty
                 THEN finish(s1, "PROTOCOL_ERROR")
                 ELSE LET srp_key == createSrpKey(s1)
                      IN  IF srp_key = Empty
                          THEN finish(s1, "UNKNOWN_ERROR")
                          ELSE IF s1.encryption \notin {ENCRYPTION_AES256_GCM,
                                                        ENCRYPTION_CHACHA20_POLY1305}
                          THEN finish(s1, "UNKNOWN_ERROR")
                          ELSE LET s2 == [s1 EXCEPT !.session_key =
                                              BLAKE2s256((IF s1.session_key # Empty
                                                          THEN s1.session_key ELSE Empty)
                                                         \o srp_key)]
                                   s3 == onSessionKeyChanged(s2, draw.key_ok)
                               IN  IF ~draw.key_ok
                                   THEN s3
                                   ELSE doSessionChallenge(
                                            [s3 EXCEPT !.internal_state =
                                                           "SEND_SESSION_CHALLENGE"])

\* onSessionResponse that rejects only the empty mask
onSessionResponse_ZeroOnly(self, buffer) ==
    LET s0 == received(self, "SessionResponse", buffer)
    IN  IF ~parse(buffer, "SessionResponse")
        THEN finish(s0, "PROTOCOL_ERROR")
        ELSE LET s1 == [s0 EXCEPT !.peer_version = buffer.version]
                 session_type == buffer.session_type
             IN  IF BitCount(session_type) = 0
                 THEN finish(s1, "PROTOCOL_ERROR")
                 ELSE LET s2 == [s1 EXCEPT !.session_type = BitValue(session_type)]
                      IN  IF BitAnd(s2.session_types, s2.session_type) = 0
                          THEN finish(s2, "SESSION_DENIED")
                          ELSE finish(s2, "SUCCESS")

\* the position of the bit of a one-bit mask
BitIndex(mask) == CHOOSE i \in 0 .. MaskBits : Pow2(i) = mask

\* onSessionResponse that records the position of the bit
onSessionResponse_StoreIndex(self, buffer) ==
    LET s0 == received(self, "SessionResponse", buffer)
    IN  IF ~parse(buffer, "SessionResponse")
        THEN finish(s0, "PROTOCOL_ERROR")
        ELSE LET s1 == [s0 EXCEPT !.peer_version = buffer.version]
                 session_type == buffer.session_type
             IN  IF BitCount(session_type) # 1
                 THEN finish(s1, "PROTOCOL_ERROR")
                 ELSE LET s2 == [s1 EXCEPT !.session_type = BitIndex(session_type)]
                      IN  IF BitAnd(s2.session_types, session_type) = 0
                          THEN finish(s2, "SESSION_DENIED")
                          ELSE finish(s2, "SUCCESS")

onSessionResponse(self, buffer) ==
    LET s0 == received(self, "SessionResponse", buffer)
    IN  IF ~parse(buffer, "SessionResponse")
        THEN finish(s0, "PROTOCOL_ERROR")
        ELSE LET s1 == [s0 EXCEPT !.peer_version = buffer.version]
                 session_type == buffer.session_type
             IN  IF BitCount(session_type) # 1
                 THEN finish(s1, "PROTOCOL_ERROR")
                 ELSE LET s2 == [s1 EXCEPT !.session_type = BitValue(session_type)]
                      IN  IF BitAnd(s2.session_types, s2.session_type) = 0
                          THEN finish(s2, "SESSION_DENIED")
                          ELSE finish(s2, "SUCCESS")

\* onReceived with the READ_IDENTIFY case routed to the wrong handler
onReceived_WrongRoute(self, buffer, draw) ==
    CASE self.internal_state = "READ_CLIENT_HELLO" -> onClientHello(self, buffer)
      [] self.internal_state = "READ_IDENTIFY" -> onClientKeyExchange(self, buffer, draw)
      [] self.internal_state = "READ_CLIENT_KEY_EXCHANGE" ->
             onClientKeyExchange(self, buffer, draw)
      [] self.internal_state = "READ_SESSION_RESPONSE" -> onSessionResponse(self, buffer)
      [] OTHER -> [self EXCEPT !.notreached = TRUE]

onReceived(self, buffer, draw) ==
    CASE self.internal_state = "READ_CLIENT_HELLO" -> onClientHello(self, buffer)
      [] self.internal_state = "READ_IDENTIFY" -> onIdentify(self, buffer, draw)
      [] self.internal_state = "READ_CLIENT_KEY_EXCHANGE" ->
             onClientKeyExchange(self, buffer, draw)
      [] self.internal_state = "READ_SESSION_RESPONSE" -> onSessionResponse(self, buffer)
      [] OTHER -> [self EXCEPT !.notreached = TRUE]

\* onWritten that goes on after onSessionKeyChanged returned false
onWritten_IgnoreHook(self, draw) ==
    CASE self.internal_state = "SEND_SERVER_HELLO" ->
             LET s1 == IF self.session_key # Empty
                       THEN onSessionKeyChanged(self, draw.key_ok)
                       ELSE self
             IN  CASE s1.identify = IDENTIFY_SRP ->
                          [s1 EXCEPT !.internal_state = "READ_IDENTIFY"]
                   [] s1.identify = IDENTIFY_ANONYMOUS ->
                          doSessionChallenge(
                              [s1 EXCEPT !.internal_state = "SEND_SESSION_CHALLENGE"])
                   [] OTHER -> [s1 EXCEPT !.notreached = TRUE]
      [] self.internal_state = "SEND_SERVER_KEY_EXCHANGE" ->
             [self EXCEPT !.internal_state = "READ_CLIENT_KEY_EXCHANGE"]
      [] self.internal_state = "SEND_SESSION_CHALLENGE" ->
             [self EXCEPT !.internal_state = "READ_SESSION_RESPONSE"]
      [] OTHER -> [self EXCEPT !.notreached = TRUE]

\* onWritten that does not report the ECDH key to the channel
onWritten_NoHook(self, draw) ==
    CASE self.internal_state = "SEND_SERVER_HELLO" ->
             CASE self.identify = IDENTIFY_SRP ->
                      [self EXCEPT !.internal_state = "READ_IDENTIFY"]
               [] self.identify = IDENTIFY_ANONYMOUS ->
                      doSessionChallenge(
                          [self EXCEPT !.internal_state = "SEND_SESSION_CHALLENGE"])
               [] OTHER -> [self EXCEPT !.notreached = TRUE]
      [] self.internal_state = "SEND_SERVER_KEY_EXCHANGE" ->
             [self EXCEPT !.internal_state = "READ_CLIENT_KEY_EXCHANGE"]
      [] self.internal_state = "SEND_SESSION_CHALLENGE" ->
             [self EXCEPT !.internal_state = "READ_SESSION_RESPONSE"]
      [] OTHER -> [self EXCEPT !.notreached = TRUE]

onWritten(self, draw) ==
    CASE self.internal_state = "SEND_SERVER_HELLO" ->
             LET s1 == IF self.session_key # Empty
                       THEN onSessionKeyChanged(self, draw.key_ok)
                       ELSE self
             IN  IF self.session_key # Empty /\ ~draw.key_ok
                 THEN s1
                 ELSE CASE s1.identify = IDENTIFY_SRP ->
                               [s1 EXCEPT !.internal_state = "READ_IDENTIFY"]
                        [] s1.identify = IDENTIFY_ANONYMOUS ->
                               doSessionChallenge(
                                   [s1 EXCEPT !.internal_state = "SEND_SESSION_CHALLENGE"])
                        [] OTHER -> [s1 EXCEPT !.notreached = TRUE]
      [] self.internal_state = "SEND_SERVER_KEY_EXCHANGE" ->
             [self EXCEPT !.internal_state = "READ_CLIENT_KEY_EXCHANGE"]
      [] self.internal_state = "SEND_SESSION_CHALLENGE" ->
             [self EXCEPT !.internal_state = "READ_SESSION_RESPONSE"]
      [] OTHER -> [self EXCEPT !.notreached = TRUE]

\* Authenticator as listener of the channel: a buffer that arrives once the
\* handshake is over is discarded, any other goes to onReceived
onMessageReceived(self, buffer, draw) ==
    IF self.state # "PENDING" THEN self ELSE onReceived(self, buffer, draw)

\* likewise for a completed write
onMessageWritten(self, draw) ==
    IF self.state # "PENDING" THEN self
    ELSE onWritten([self EXCEPT !.pending_write = FALSE], draw)

---------------------------------------------------------------------------
(* What the environment can feed the authenticator *)

ClientIv == [i \in 1 .. kIvSize |-> 9]

\* the private keys a caller may pass: none, a broken one, a good one
PrivateKeys == {Empty, <<0>>, <<3>>}

\* the ECDH keys a peer may send: none, a malformed one, those of the
\* peer secrets 1 and 2
PeerSecrets == {1, 2}
PeerPublicKey(secret) == <<ModExp(DhGroup[2], secret, DhGroup[1])>>
PeerPublicKeys == {Empty, <<0>>} \cup {PeerPublicKey(c) : c \in PeerSecrets}

Garbage == [kind |-> "Garbage"]

ClientHellos ==
    [kind : {"ClientHello"}, encryption : 0 .. 4, identify : 0 .. 2,
     public_key : PeerPublicKeys, iv : {Empty, ClientIv}]

Usernames == {"", BadUtf8, "alice", "bob", "carol", "dave", "ghost"}

SrpIdentifys == [kind : {"SrpIdentify"}, username : Usernames]

\* the SRP secrets a peer may use
PeerExponents == {1, 2}

\* A as sent to a server that announced the group <<N, g>>: missing, zero,
\* g^a mod N, N itself, N + 1 and 2N
SrpClientKeyExchanges(N, g) ==
    [kind : {"SrpClientKeyExchange"},
     a : {Empty, <<0>>, <<N>>, <<N + 1>>, <<2 * N>>}
         \cup {<<ModExp(g, a, N)>> : a \in PeerExponents},
     iv : {Empty, ClientIv}]

SessionResponses == [kind : {"SessionResponse"}, session_type : Masks, version : {2}]

\* the buffers that matter in a state: the records of the type read there,
\* and one buffer that does not decode
Deliverable(self) ==
    {Garbage} \cup
    CASE self.internal_state = "READ_CLIENT_HELLO" -> ClientHellos
      [] self.internal_state = "READ_IDENTIFY" -> SrpIdentifys
      [] self.internal_state = "READ_CLIENT_KEY_EXCHANGE" ->
             SrpClientKeyExchanges(self.N, self.g)
      [] self.internal_state = "READ_SESSION_RESPONSE" -> SessionResponses
      [] OTHER -> {}

NoDraw == [b |-> 1, fill |-> 1, key_ok |-> TRUE]

\* the random draws and hook results a callback can meet in a state
Draws(internal_state) ==
    CASE internal_state = "READ_IDENTIFY" ->
             [b : 1 .. MaxB, fill : {1}, key_ok : {TRUE}]
      [] internal_state \in {"READ_CLIENT_KEY_EXCHANGE", "SEND_SERVER_HELLO"} ->
             [b : {1}, fill : {1}, key_ok : BOOLEAN]
      [] OTHER -> {NoDraw}

---------------------------------------------------------------------------
(* One authenticator *)

Init ==
    /\ auth = NewAuthenticator
    /\ twin = NewAuthenticator
    /\ aes_ni \in BOOLEAN

\* the arguments worth trying: once started the guarded setters ignore
\* their arguments, and `one` stands for all
SetterArgs(self, values, one) == IF self.state = "STOPPED" THEN values ELSE {one}

SetUserList ==
    /\ \E user_list \in UserLists : auth' = setUserList(auth, user_list)
    /\ UNCHANGED <<twin, aes_ni>>

SetPrivateKey ==
    /\ \E private_key \in SetterArgs(auth, PrivateKeys, <<3>>),
          fill \in SetterArgs(auth, IvDraws, 1) :
           auth' = setPrivateKey(auth, private_key, fill)
    /\ UNCHANGED <<twin, aes_ni>>

SetAnonymousAccess ==
    /\ \E anonymous_access \in {"DISABLE", "ENABLE"},
          session_types \in SetterArgs(auth, Masks, 1) :
           auth' = setAnonymousAccess(auth, anonymous_access, session_types)
    /\ UNCHANGED <<twin, aes_ni>>

Start ==
    /\ auth.state = "STOPPED"
    /\ ~auth.user_list.null
    /\ auth' = start(auth)
    /\ UNCHANGED <<twin, aes_ni>>

\* the channel delivers a buffer
Received ==
    /\ auth.state # "STOPPED"
    /\ auth.pump
    /\ \E buffer \in Deliverable(auth), draw \in Draws(auth.internal_state) :
           auth' = onMessageReceived(auth, buffer, draw)
    /\ UNCHANGED <<twin, aes_ni>>

\* the channel reports the write of the last message
Written ==
    /\ auth.state # "STOPPED"
    /\ auth.pump
    /\ auth.pending_write
    /\ \E draw \in Draws(auth.internal_state) :
           auth' = onMessageWritten(auth, draw)
    /\ UNCHANGED <<twin, aes_ni>>

Next ==
    \/ SetUserList
    \/ SetPrivateKey
    \/ SetAnonymousAccess
    \/ Start
    \/ Received
    \/ Written

Spec == Init /\ [][Next]_vars

---------------------------------------------------------------------------
(* Two authenticators side by side: `auth` has the full user list, `twin`  *)
(* the list without one account; both are configured alike and are given   *)
(* the same buffers, the same random draws and the same hook results       *)

Configured(user_list, private_key, fill, anonymous_access, session_types) ==
    start(setAnonymousAccess(
              setPrivateKey(setUserList(NewAuthenticator, user_list), private_key, fill),
              anonymous_access, session_types))

InitPair ==
    /\ aes_ni \in BOOLEAN
    /\ \E private_key \in PrivateKeys, anonymous_access \in {"DISABLE", "ENABLE"},
          session_types \in Masks, shorter \in {UserListB, UserListC} :
           /\ auth = Configured(UserListA, private_key, 1, anonymous_access, session_types)
           /\ twin = Configured(shorter, private_key, 1, anonymous_access, session_types)

\* both can take the next callback
InStep ==
    /\ auth.state = "PENDING" /\ twin.state = "PENDING"
    /\ auth.pump /\ twin.pump
    /\ auth.internal_state = twin.internal_state

PairReceived ==
    /\ InStep
    /\ \E buffer \in Deliverable(auth) \cup Deliverable(twin),
          draw \in Draws(auth.internal_state) :
           /\ auth' = onReceived(auth, buffer, draw)
           /\ twin' = onReceived(twin, buffer, draw)
    /\ UNCHANGED aes_ni

PairWritten ==
    /\ InStep
    /\ auth.pending_write /\ twin.pending_write
    /\ \E draw \in Draws(auth.internal_state) :
           /\ auth' = onWritten([auth EXCEPT !.pending_write = FALSE], draw)
           /\ twin' = onWritten([twin EXCEPT !.pending_write = FALSE], draw)
    /\ UNCHANGED aes_ni

NextPair == PairReceived \/ PairWritten

SpecPair == InitPair /\ [][NextPair]_vars

---------------------------------------------------------------------------
(* Reading the log of the channel *)

Kinds(self) == [i \in 1 .. Len(self.wire) |-> self.wire[i].kind]

IsPrefix(p, q) == Len(p) <= Len(q) /\ \A i \in 1 .. Len(p) : p[i] = q[i]

AnonymousOrder == <<"ClientHello", "ServerHello", "SessionChallenge", "SessionResponse">>

SrpOrder ==
    <<"ClientHello", "ServerHello", "SrpIdentify", "SrpServerKeyExchange",
      "SrpClientKeyExchange", "SessionChallenge", "SessionResponse">>

FromClient == {"ClientHello", "SrpIdentify", "SrpClientKeyExchange", "SessionResponse"}

\* the i-th entry of the log is a record of type `kind` that decoded
Decoded(self, i, kind) ==
    /\ Len(self.wire) >= i
    /\ self.wire[i].kind = kind
    /\ self.wire[i].msg.kind = kind

\* the user record lets SRP run against the stored verifier
Eligible(user) ==
    /\ UserIsValid(user)
    /\ BitAnd(user.flags, ENABLED_FLAG) # 0
    /\ pairByGroupHasValue(user.group)

\* position of SessionResponse in the log
ResponseAt(self) == IF self.identify = IDENTIFY_ANONYMOUS THEN 4 ELSE 7

---------------------------------------------------------------------------
(* C1 *)

\* C1: the records handled and sent follow ClientHello, ServerHello,
\* (SrpIdentify, SrpServerKeyExchange, SrpClientKeyExchange)?,
\* SessionChallenge, SessionResponse: the log is always a prefix of one of
\* the two orders (so nothing is out of order or repeated), client records
\* are the ones received and server records the ones sent, and the SRP
\* triple is left out exactly when ClientHello.identify is ANONYMOUS.
C1_WireOrder ==
    LET kinds == Kinds(auth)
    IN  /\ IsPrefix(kinds, SrpOrder) \/ IsPrefix(kinds, AnonymousOrder)
        /\ \A i \in 1 .. Len(kinds) :
               (auth.wire[i].dir = "in") <=> (kinds[i] \in FromClient)
        /\ Len(kinds) >= 3 =>
               ((kinds[3] = "SessionChallenge")
                    <=> (auth.wire[1].msg.identify = IDENTIFY_ANONYMOUS))
        /\ Len(kinds) >= 3 =>
               ((kinds[3] = "SrpIdentify")
                    <=> (auth.wire[1].msg.identify = IDENTIFY_SRP))

\* a complete SRP handshake
C1_Witness == Kinds(auth) = SrpOrder /\ auth.result = "SUCCESS"

---------------------------------------------------------------------------
(* The conforming client: what it sends and the key it derives *)

ReadStates ==
    {"READ_CLIENT_HELLO", "READ_IDENTIFY", "READ_CLIENT_KEY_EXCHANGE",
     "READ_SESSION_RESPONSE"}

\* the client's half of the ECDH exchange: H(server_public ^ c), or nothing
\* when it sent no key
ClientPreKey(self) ==
    LET hello == self.wire[1].msg
    IN  IF hello.public_key = Empty THEN Empty
        ELSE LET c == CHOOSE c \in PeerSecrets : PeerPublicKey(c) = hello.public_key
             IN  BLAKE2s256(<<ModExp(KeyPairPublicKey(self.key_pair)[1], c, DhGroup[1])>>)

\* SrpMath::calc_client_key: S = (B - k * g^x) ^ (a + u * x) mod N, from the
\* server's SrpServerKeyExchange and the account's password
ClientSrpKey(self) ==
    LET name == self.wire[3].msg.username
        ske == self.wire[4].msg
        N == ske.number[1]
        g == ske.generator[1]
        s == ske.salt[1]
        B == ske.b[1]
        a == CHOOSE e \in PeerExponents : <<ModExp(g, e, N)>> = self.wire[5].msg.a
        A == ModExp(g, a, N)
        x == SrpCalc_x(s, name, Code(Password(name)))
        k == SrpCalc_k(N, g)
        u == SrpCalc_u(A, B, N)
    IN  <<ModExp((B + k * N - k * ModExp(g, x, N)) % N, a + u * x, N)>>

ClientSessionKey(self) == BLAKE2s256(ClientPreKey(self) \o ClientSrpKey(self))

\* SRP, a supported cipher, and an ECDH envelope only towards a server whose
\* public key the client has
ConformingHello(self) ==
    /\ Decoded(self, 1, "ClientHello")
    /\ LET hello == self.wire[1].msg
       IN  /\ hello.identify = IDENTIFY_SRP
           /\ hello.encryption \in 1 .. 3
           /\ \/ hello.public_key = Empty /\ hello.iv = Empty
              \/ /\ self.key_pair.valid
                 /\ hello.public_key \in {PeerPublicKey(c) : c \in PeerSecrets}
                 /\ hello.iv = ClientIv

\* names an account that is present, enabled, in a known group and allowed
\* at least one session type
ConformingIdentify(self) ==
    /\ Decoded(self, 3, "SrpIdentify")
    /\ self.wire[3].msg.username = self.user.name
    /\ Eligible(self.user)
    /\ self.user.sessions # 0

ConformingKeyExchange(self) ==
    /\ Decoded(self, 5, "SrpClientKeyExchange")
    /\ LET ske == self.wire[4].msg
       IN  \E a \in PeerExponents :
               self.wire[5].msg.a = <<ModExp(ske.generator[1], a, ske.number[1])>>
    /\ self.wire[5].msg.iv # Empty

ConformingResponse(self) ==
    /\ Decoded(self, 7, "SessionResponse")
    /\ BitCount(self.wire[7].msg.session_type) = 1
    /\ BitAnd(self.user.sessions, self.wire[7].msg.session_type) # 0

\* every record received so far is one a conforming client sends
ConformingSoFar(self) ==
    /\ ConformingHello(self)
    /\ Len(self.wire) >= 3 => ConformingIdentify(self)
    /\ Len(self.wire) >= 5 => ConformingKeyExchange(self)
    /\ Len(self.wire) >= 7 => ConformingResponse(self)

---------------------------------------------------------------------------
(* C2 *)

\* C2 as claimed: with a conforming client and a valid account, a handshake
\* that has come to an end (finished, or stopped by the pump) has finished
\* with SUCCESS and the server's session key is the client's.
C2_AlwaysSuccess ==
    (ConformingSoFar(auth) /\ (auth.state = "DONE" \/ ~auth.pump)) =>
        (auth.result = "SUCCESS" /\ auth.session_key = ClientSessionKey(auth))

\* C2, amended: with a conforming client and a valid account the handshake
\* never finishes with an error, it is never left waiting for nothing while
\* onSessionKeyChanged has returned true each time, once the SRP exchange is
\* done the server's session key (the one given to the channel) is the key
\* the client derives, and when it finishes it finishes with SUCCESS.
C2_ConformingSucceeds ==
    ConformingSoFar(auth) =>
        /\ auth.result \in {"NONE", "SUCCESS"}
        /\ (auth.state = "PENDING" /\ auth.pump) =>
               (auth.pending_write \/ auth.internal_state \in ReadStates)
        /\ (Len(auth.wire) >= 6) =>
               /\ auth.session_key = ClientSessionKey(auth)
               /\ auth.channel_key = ClientSessionKey(auth)
        /\ (auth.state = "DONE") =>
               /\ auth.result = "SUCCESS"
               /\ Len(auth.wire) = 7

\* a conforming client that used the ECDH envelope has finished with SUCCESS
C2_Witness ==
    /\ ConformingSoFar(auth)
    /\ auth.result = "SUCCESS"
    /\ auth.wire[1].msg.public_key # Empty
    /\ auth.session_key = ClientSessionKey(auth)

---------------------------------------------------------------------------
(* C3 *)

\* SrpIdentify named a user that is absent, disabled or in an unknown group
PhantomCase(self) ==
    /\ Decoded(self, 3, "SrpIdentify")
    /\ self.user_name # ""
    /\ ~Eligible(self.user)

\* an SrpClientKeyExchange the server goes on from
AcceptableKeyExchange(self) ==
    /\ Decoded(self, 5, "SrpClientKeyExchange")
    /\ self.wire[5].msg.a # Empty
    /\ self.wire[5].msg.a[1] % self.N # 0
    /\ self.wire[5].msg.iv # Empty

\* C3: when SrpIdentify names a user that is absent, disabled or has an
\* unknown SRP group, the server has answered with SrpServerKeyExchange (in
\* the decoy group), its session_types is 0, it sends SessionChallenge (with
\* session_types 0) once the client's key exchange is accepted, it never
\* finishes with ACCESS_DENIED or SUCCESS, and a SessionResponse with exactly
\* one bit set finishes with SESSION_DENIED.
C3_PhantomUser ==
    PhantomCase(auth) =>
        /\ Len(auth.wire) >= 4
        /\ auth.wire[4].kind = "SrpServerKeyExchange"
        /\ auth.wire[4].msg.number = <<kSrpNgPair_8192[1]>>
        /\ auth.wire[4].msg.generator = <<kSrpNgPair_8192[2]>>
        /\ auth.session_types = 0
        /\ auth.result \notin {"ACCESS_DENIED", "SUCCESS"}
        /\ (AcceptableKeyExchange(auth) /\ auth.pump) =>
               /\ Len(auth.wire) >= 6
               /\ auth.wire[6].kind = "SessionChallenge"
               /\ auth.wire[6].msg.session_types = 0
        /\ (Decoded(auth, 7, "SessionResponse")
                /\ BitCount(auth.wire[7].msg.session_type) = 1) =>
               auth.result = "SESSION_DENIED"

\* the absent user "ghost" went through the whole exchange and was denied
C3_Witness ==
    /\ PhantomCase(auth)
    /\ auth.user_name = "ghost"
    /\ Decoded(auth, 7, "SessionResponse")
    /\ auth.result = "SESSION_DENIED"

---------------------------------------------------------------------------
(* C7 *)

\* C7: a SessionResponse whose session_type mask has no bit or more than
\* one bit set finishes with PROTOCOL_ERROR, whatever session_types is.
C7_Cardinality ==
    \A i \in 1 .. Len(auth.wire) :
        (Decoded(auth, i, "SessionResponse")
             /\ BitCount(auth.wire[i].msg.session_type) # 1) =>
            (auth.state = "DONE" /\ auth.result = "PROTOCOL_ERROR")

\* alice, allowed the session types 0b011, answered 0b011
C7_Witness ==
    /\ Decoded(auth, 7, "SessionResponse")
    /\ auth.wire[7].msg.session_type = 3
    /\ auth.session_types = 3
    /\ auth.result = "PROTOCOL_ERROR"

---------------------------------------------------------------------------
(* C5 *)

\* the ClientHello offers a cipher the server has
OffersCipher(hello) ==
    \/ BitAnd(hello.encryption, ENCRYPTION_AES256_GCM) # 0
    \/ BitAnd(hello.encryption, ENCRYPTION_CHACHA20_POLY1305) # 0

\* C5: with anonymous_access = DISABLE, a well-formed ClientHello that
\* offers a supported cipher and has identify = ANONYMOUS finishes with
\* ACCESS_DENIED, nothing is sent, and internal_state stays
\* READ_CLIENT_HELLO.
C5_AnonymousDenied ==
    (/\ Decoded(auth, 1, "ClientHello")
     /\ OffersCipher(auth.wire[1].msg)
     /\ auth.wire[1].msg.identify = IDENTIFY_ANONYMOUS
     /\ auth.anonymous_access = "DISABLE") =>
        /\ auth.state = "DONE"
        /\ auth.result = "ACCESS_DENIED"
        /\ Len(auth.wire) = 1
        /\ ~auth.pending_write
        /\ auth.internal_state = "READ_CLIENT_HELLO"

\* an anonymous ClientHello with an ECDH envelope, to a server that has a
\* key pair but no anonymous access, was denied
C5_Witness ==
    /\ Decoded(auth, 1, "ClientHello")
    /\ auth.wire[1].msg.identify = IDENTIFY_ANONYMOUS
    /\ auth.wire[1].msg.public_key # Empty
    /\ auth.key_pair.valid
    /\ auth.anonymous_access = "DISABLE"
    /\ auth.result = "ACCESS_DENIED"

---------------------------------------------------------------------------
(* C6 *)

\* the mask of an SRP peer: the sessions of its account, or nothing
SrpMask(self) == IF Eligible(self.user) THEN self.user.sessions ELSE 0

\* the SessionResponse that was handled, if any
HandledResponse(self) == Decoded(self, ResponseAt(self), "SessionResponse")
ResponseMask(self) == self.wire[ResponseAt(self)].msg.session_type

\* in a finished handshake the answer was one permitted bit, and one bit
\* that is not permitted was denied; the permitted mask of an SRP peer is
\* that of its account, whatever the anonymous mask is
C6_Finished ==
    /\ auth.result = "SUCCESS" =>
           /\ HandledResponse(auth)
           /\ BitCount(ResponseMask(auth)) = 1
           /\ BitAnd(auth.session_types, ResponseMask(auth)) # 0
    /\ (HandledResponse(auth) /\ BitCount(ResponseMask(auth)) = 1
            /\ BitAnd(auth.session_types, ResponseMask(auth)) = 0) =>
           auth.result = "SESSION_DENIED"
    /\ (auth.identify = IDENTIFY_SRP /\ Len(auth.wire) >= 4) =>
           auth.session_types = SrpMask(auth)

\* once started, an anonymous handshake never changes session_types: it is
\* the mask setAnonymousAccess configured
C6_AnonymousMaskKept ==
    (auth.state # "STOPPED" /\ auth'.identify = IDENTIFY_ANONYMOUS) =>
        auth'.session_types = auth.session_types

\* C6: finish(SUCCESS) happens only after a SessionResponse with exactly one
\* bit set that is in the effective session_types: the configured anonymous
\* mask for an ANONYMOUS peer, the account's sessions mask for an SRP peer
\* whose user is present, enabled and in a known group, 0 for any other SRP
\* peer; one bit outside that mask finishes with SESSION_DENIED.
C6_EffectiveMask == [](C6_Finished) /\ [][C6_AnonymousMaskKept]_vars

\* alice (sessions 0b011) asked for 0b100, which only the anonymous mask
\* 0b100 of this server has, and was denied
C6_Witness ==
    /\ auth.identify = IDENTIFY_SRP
    /\ auth.anonymous_access = "ENABLE"
    /\ auth.user.name = "alice"
    /\ HandledResponse(auth)
    /\ ResponseMask(auth) = 4
    /\ auth.result = "SESSION_DENIED"

---------------------------------------------------------------------------
(* C8 *)

\* C8: for every accepted ClientHello the cipher in encryption and in
\* ServerHello is AES256_GCM iff the client's mask has AES256_GCM and the
\* host has AES hardware, and CHACHA20_POLY1305 otherwise.
C8_Cipher ==
    Len(auth.wire) >= 2 =>
        LET offer == auth.wire[1].msg.encryption
            chosen == auth.wire[2].msg.encryption
        IN  /\ auth.wire[2].kind = "ServerHello"
            /\ auth.encryption = chosen
            /\ chosen \in {ENCRYPTION_AES256_GCM, ENCRYPTION_CHACHA20_POLY1305}
            /\ (chosen = ENCRYPTION_AES256_GCM)
                   <=> (BitAnd(offer, ENCRYPTION_AES256_GCM) # 0 /\ aes_ni)

\* CHACHA20_POLY1305 alone offered to a host with AES hardware
C8_Witness ==
    /\ Len(auth.wire) >= 2
    /\ auth.wire[1].msg.encryption = ENCRYPTION_CHACHA20_POLY1305
    /\ aes_ni
    /\ auth.encryption = ENCRYPTION_CHACHA20_POLY1305

---------------------------------------------------------------------------
(* C9 *)

\* exactly one of public_key and iv is there
HalfEnvelope(hello) == (hello.public_key = Empty) # (hello.iv = Empty)

\* the ClientHello got past the cipher and the identify checks
PastIdentifyCheck(self, hello) ==
    /\ OffersCipher(hello)
    /\ \/ hello.identify = IDENTIFY_SRP
       \/ hello.identify = IDENTIFY_ANONYMOUS /\ self.anonymous_access = "ENABLE"

\* C9 as claimed: a ClientHello with exactly one of public_key and iv
\* finishes with PROTOCOL_ERROR and no ServerHello is sent.
C9_HalfEnvelopeRejected ==
    (Decoded(auth, 1, "ClientHello") /\ HalfEnvelope(auth.wire[1].msg)) =>
        (auth.result = "PROTOCOL_ERROR" /\ Len(auth.wire) = 1)

\* C9, amended: when the server has a key pair and the ClientHello passes
\* the cipher and identify checks, exactly one of public_key and iv
\* finishes with PROTOCOL_ERROR and no ServerHello is sent; when ServerHello
\* is sent, session_key is the hash of the ECDH shared secret and ServerHello
\* carries encrypt_iv if both were present and the server has a key pair,
\* and session_key is empty and ServerHello carries no iv if both were
\* empty or the server has no key pair (it then ignores the two fields).
C9_Envelope ==
    Decoded(auth, 1, "ClientHello") =>
        LET hello == auth.wire[1].msg
            answered == Len(auth.wire) = 2
        IN  /\ (auth.key_pair.valid /\ PastIdentifyCheck(auth, hello)
                    /\ HalfEnvelope(hello)) =>
                   (auth.result = "PROTOCOL_ERROR" /\ Len(auth.wire) = 1)
            /\ (answered /\ auth.key_pair.valid
                    /\ hello.public_key # Empty /\ hello.iv # Empty) =>
                   /\ auth.session_key =
                          BLAKE2s256(KeyPairSessionKey(auth.key_pair, hello.public_key))
                   /\ auth.decrypt_iv = hello.iv
                   /\ auth.wire[2].msg.iv = auth.encrypt_iv
            /\ (answered /\ hello.public_key = Empty /\ hello.iv = Empty) =>
                   (auth.session_key = Empty /\ auth.wire[2].msg.iv = Empty)
            /\ (answered /\ ~auth.key_pair.valid) =>
                   (auth.session_key = Empty /\ auth.wire[2].msg.iv = Empty)

\* a public key without an iv, sent to a server with a key pair, was
\* rejected
C9_Witness ==
    /\ Decoded(auth, 1, "ClientHello")
    /\ auth.key_pair.valid
    /\ PastIdentifyCheck(auth, auth.wire[1].msg)
    /\ auth.wire[1].msg.public_key # Empty
    /\ auth.wire[1].msg.iv = Empty
    /\ auth.result = "PROTOCOL_ERROR"

---------------------------------------------------------------------------
(* C10 *)

\* C10 as claimed: an SrpClientKeyExchange whose A is outside (0, N)
\* finishes with PROTOCOL_ERROR and no SessionChallenge is sent.
C10_OutOfRangeRejected ==
    (/\ Decoded(auth, 5, "SrpClientKeyExchange")
     /\ auth.wire[5].msg.a # Empty
     /\ (auth.wire[5].msg.a[1] = 0 \/ auth.wire[5].msg.a[1] >= auth.N)) =>
        (auth.result = "PROTOCOL_ERROR" /\ Len(auth.wire) = 5)

\* C10, amended: an SrpClientKeyExchange whose A is a multiple of N (0
\* included) finishes with UNKNOWN_ERROR (PROTOCOL_ERROR when its iv is
\* empty) and no SessionChallenge is sent; an A that is not a multiple of N,
\* be it larger than N, is not rejected: with a non-empty iv the handshake
\* goes on to SessionChallenge unless onSessionKeyChanged returns false.
C10_MultipleOfN ==
    (Decoded(auth, 5, "SrpClientKeyExchange") /\ auth.wire[5].msg.a # Empty) =>
        LET cke == auth.wire[5].msg
        IN  /\ (cke.a[1] % auth.N = 0) =>
                   /\ auth.state = "DONE"
                   /\ auth.result = IF cke.iv = Empty THEN "PROTOCOL_ERROR"
                                    ELSE "UNKNOWN_ERROR"
                   /\ Len(auth.wire) = 5
            /\ (cke.a[1] % auth.N # 0 /\ cke.iv # Empty /\ Len(auth.wire) <= 6) =>
                   /\ auth.result = "NONE"
                   /\ auth.pump =>
                          (Len(auth.wire) = 6 /\ auth.wire[6].kind = "SessionChallenge")

\* A = N with an iv was refused with UNKNOWN_ERROR
C10_Witness ==
    /\ Decoded(auth, 5, "SrpClientKeyExchange")
    /\ auth.wire[5].msg.a = <<auth.N>>
    /\ auth.wire[5].msg.iv # Empty
    /\ auth.result = "UNKNOWN_ERROR"

---------------------------------------------------------------------------
(* C4 *)

\* what an observer of the channel learns from a record the server sent:
\* its type, and the fields that do not come from a random draw or a salt
Observable(entry) ==
    CASE entry.kind = "ServerHello" ->
             <<entry.kind, entry.msg.encryption, entry.msg.iv>>
      [] entry.kind = "SrpServerKeyExchange" ->
             <<entry.kind, entry.msg.number, entry.msg.generator, entry.msg.iv>>
      [] entry.kind = "SessionChallenge" ->
             <<entry.kind, entry.msg.session_types>>
      [] OTHER -> <<entry.kind>>

Shorter(m, n) == IF m <= n THEN m ELSE n

\* C4: of two handshakes that differ only in whether the named user is in
\* the user list, given the same client input, the server sends the same
\* record types with the same group and the same session_types in both, so
\* nothing it sends tells the unknown user from the known one.
C4_SameWire ==
    \A i \in 1 .. Shorter(Len(auth.wire), Len(twin.wire)) :
        /\ auth.wire[i].kind = twin.wire[i].kind
        /\ auth.wire[i].dir = "out" =>
               Observable(auth.wire[i]) = Observable(twin.wire[i])

---------------------------------------------------------------------------
(* C11: when onSessionKeyChanged returns false (at the write completion of *)
(* ServerHello with an ECDH key, or after the SRP key mix) the handshake   *)
(* stops: that step leaves internal_state alone and sends nothing, and     *)
(* afterwards internal_state never changes, nothing more is sent and       *)
(* finish(SUCCESS) is never reached                                        *)

\* the records the server has sent
Sent(self) == SelectSeq(self.wire, LAMBDA entry : entry.dir = "out")

\* the hook has returned false
HookRefused(self) == ~self.pump

C11_Stopped ==
    HookRefused(auth) =>
        /\ auth.result # "SUCCESS"
        /\ auth.internal_state \in {"SEND_SERVER_HELLO", "READ_CLIENT_KEY_EXCHANGE"}
        /\ Sent(auth)[Len(Sent(auth))].kind # "SessionChallenge"

C11_RefusalStep ==
    (~HookRefused(auth) /\ HookRefused(auth')) =>
        /\ auth'.key_changes = auth.key_changes + 1
        /\ auth'.internal_state = auth.internal_state
        /\ Sent(auth') = Sent(auth)
        /\ auth'.state = auth.state

C11_StaysStopped ==
    HookRefused(auth) =>
        /\ HookRefused(auth')
        /\ auth'.internal_state = auth.internal_state
        /\ auth'.wire = auth.wire
        /\ auth'.result = auth.result
        /\ auth'.state = auth.state

C11_KeyChangeAbort ==
    [](C11_Stopped) /\ [][C11_RefusalStep /\ C11_StaysStopped]_vars

\* the hook refused the SRP-mixed key of a handshake that also had an ECDH key
C11_Witness ==
    /\ HookRefused(auth)
    /\ auth.internal_state = "READ_CLIENT_KEY_EXCHANGE"
    /\ auth.key_changes = 2

---------------------------------------------------------------------------
(* C12: every change of session_key is reported by exactly one call of     *)
(* onSessionKeyChanged. The SRP-mixed key is reported in the handler that  *)
(* computes it, before SessionChallenge is sent. The ECDH key is reported  *)
(* at the write completion of the ServerHello that answers the ClientHello:*)
(* until then that ServerHello is the only record sent and no record is    *)
(* handled. The hook is never called for a key it has already been given   *)
(* or for an empty key                                                     *)

\* session_key was set and the channel has not been told
Unreported(self) == self.session_key # Empty /\ self.key_changes = 0

\* as stated: nothing is sent between a change of the key and the hook
C12_NoSendBeforeHook == Unreported(auth) => Sent(auth) = <<>>

C12_EcdhKeyPending ==
    Unreported(auth) =>
        /\ auth.internal_state = "SEND_SERVER_HELLO"
        /\ Len(auth.wire) = 2
        /\ auth.wire[1].kind = "ClientHello"
        /\ auth.wire[2].kind = "ServerHello"

C12_Reported ==
    (auth.key_changes > 0 /\ auth.pump) => auth.channel_key = auth.session_key

C12_MutationStep ==
    auth'.session_key # auth.session_key =>
        \/ /\ auth'.key_changes = auth.key_changes + 1
           /\ auth.internal_state = "READ_CLIENT_KEY_EXCHANGE"
           /\ Len(Sent(auth')) <= Len(Sent(auth)) + 1
        \/ /\ auth'.key_changes = auth.key_changes
           /\ auth.internal_state = "READ_CLIENT_HELLO"
           /\ Unreported(auth')

C12_HookStep ==
    auth'.key_changes # auth.key_changes =>
        /\ auth'.key_changes = auth.key_changes + 1
        /\ auth'.session_key # Empty
        /\ auth'.session_key # auth.channel_key

C12_KeyChangeReported ==
    [](C12_EcdhKeyPending /\ C12_Reported)
    /\ [][C12_MutationStep /\ C12_HookStep]_vars

\* both keys were set and each was reported once
C12_Witness ==
    /\ auth.key_changes = 2
    /\ auth.pump
    /\ auth.internal_state = "SEND_SESSION_CHALLENGE"

---------------------------------------------------------------------------
(* C13: finish is terminal and delivered once. At most one result is       *)
(* delivered; the step that delivers it sends no message; and once the     *)
(* handshake is finished no callback changes the state of the handshake,   *)
(* sends a message or delivers a second result                             *)

C13_Once ==
    /\ auth.finished <= 1
    /\ auth.state = "DONE" <=> auth.finished = 1
    /\ auth.result # "NONE" <=> auth.state = "DONE"

C13_FinishStep ==
    auth'.finished # auth.finished =>
        /\ Sent(auth') = Sent(auth)
        /\ ~auth'.pending_write

\* after finish only setUserList, which the channel does not call, still
\* changes anything
C13_Discarded ==
    auth.state = "DONE" => [auth' EXCEPT !.user_list = auth.user_list] = auth

C13_FinishTerminal ==
    [](C13_Once) /\ [][C13_FinishStep /\ C13_Discarded]_vars

\* a handshake that was refused after two records had been sent
C13_Witness ==
    /\ auth.state = "DONE"
    /\ auth.finished = 1
    /\ auth.result = "SESSION_DENIED"
    /\ Len(Sent(auth)) >= 2

---------------------------------------------------------------------------
(* C14: whatever setPrivateKey and setAnonymousAccess calls were made      *)
(* before the start, anonymous access ENABLE goes with a valid key pair    *)
(* and a non-empty mask, and DISABLE with an empty mask; so a started      *)
(* authenticator never fails the checks of onStarted                       *)

ConfigValid(self) ==
    /\ self.anonymous_access = "ENABLE" =>
           (self.key_pair.valid /\ self.session_types # 0)
    /\ self.anonymous_access = "DISABLE" => self.session_types = 0

C14_SettersKeepConfigValid ==
    /\ auth.state = "STOPPED" => ConfigValid(auth)
    /\ auth.wire = <<>> => auth.state # "DONE"

---------------------------------------------------------------------------
(* C15: once the authenticator has been started no setter changes the      *)
(* configuration: user_list, key_pair, encrypt_iv and anonymous_access     *)
(* stay as they were, and session_types changes only where the handshake   *)
(* itself narrows it to the account named by the peer                      *)

Configuration(self) ==
    <<self.user_list, self.key_pair, self.anonymous_access>>

C15_ConfigImmutable ==
    [][auth.state # "STOPPED" =>
           /\ Configuration(auth') = Configuration(auth)
           /\ auth.internal_state # "READ_IDENTIFY" =>
                  (auth'.session_types = auth.session_types
                   /\ auth'.encrypt_iv = auth.encrypt_iv)]_vars

---------------------------------------------------------------------------
(* onStarted on every configuration the members can hold, those that the   *)
(* setters refuse included                                                 *)

StartConfigurations ==
    {[NewAuthenticator EXCEPT !.user_list = UserListA,
                              !.key_pair = key_pair,
                              !.encrypt_iv = IF key_pair.valid
                                             THEN RandomByteArray(kIvSize, 1)
                                             ELSE Empty,
                              !.anonymous_access = anonymous_access,
                              !.session_types = session_types] :
        key_pair \in {NoKeyPair, KeyPairFromPrivateKey(<<3>>)},
        anonymous_access \in {"DISABLE", "ENABLE"},
        session_types \in Masks}

InitStart ==
    /\ auth \in StartConfigurations
    /\ twin = NewAuthenticator
    /\ aes_ni \in BOOLEAN

NextStart == Start \/ Received \/ Written

SpecStart == InitStart /\ [][NextStart]_vars

(* C16: onStarted checks the configuration. With anonymous access ENABLE   *)
(* and an invalid key pair or an empty mask, or with DISABLE and a         *)
(* non-empty mask, it finishes with UNKNOWN_ERROR, returns false and no    *)
(* ClientHello is ever handled; otherwise it returns true, leaves          *)
(* internal_state at READ_CLIENT_HELLO and does not finish                 *)

C16_StartStep ==
    (auth.state = "STOPPED" /\ auth'.state # "STOPPED") =>
        /\ onStartedResult(auth) <=> ConfigValid(auth)
        /\ auth'.internal_state = "READ_CLIENT_HELLO"
        /\ auth'.wire = <<>>
        /\ IF ConfigValid(auth)
           THEN auth'.state = "PENDING" /\ auth'.finished = 0
                /\ auth'.result = "NONE"
           ELSE auth'.state = "DONE" /\ auth'.finished = 1
                /\ auth'.result = "UNKNOWN_ERROR"

C16_NothingHandled ==
    auth.state = "DONE" => auth'.wire = auth.wire

C16_StartValidates == [][C16_StartStep /\ C16_NothingHandled]_vars

\* anonymous access was disabled with a mask left over, and the start failed
C16_Witness ==
    /\ auth.anonymous_access = "DISABLE"
    /\ auth.session_types # 0
    /\ auth.state = "DONE"
    /\ auth.result = "UNKNOWN_ERROR"
    /\ auth.wire = <<>>

---------------------------------------------------------------------------
(* C17: after the SRP leg session_key = H(pre_key || srp_key), where       *)
(* pre_key is the ECDH key set while handling ClientHello, or empty. A     *)
(* different ECDH secret with the same SRP key, or a different SRP key     *)
(* with the same ECDH secret, gives a different final key, and the key     *)
(* does not depend on the cipher                                           *)

\* the key the ClientHello on record gave the server, if any
EcdhKey(self) ==
    LET hello == self.wire[1].msg
    IN  IF self.key_pair.valid /\ hello.public_key # Empty /\ hello.iv # Empty
        THEN BLAKE2s256(KeyPairSessionKey(self.key_pair, hello.public_key))
        ELSE Empty

\* the pre-keys a handshake with this server can have
EcdhKeys(self) ==
    {Empty} \cup
    {BLAKE2s256(KeyPairSessionKey(KeyPairFromPrivateKey(<<3>>), PeerPublicKey(c))) :
        c \in PeerSecrets}

\* the SRP leg is over
SrpMixed(self) ==
    /\ self.identify = IDENTIFY_SRP
    /\ self.internal_state \in {"SEND_SESSION_CHALLENGE", "READ_SESSION_RESPONSE"}

C17_KeyMix ==
    SrpMixed(auth) =>
        LET pre_key == EcdhKey(auth)
            srp_key == createSrpKey(auth)
        IN  /\ auth.session_key = BLAKE2s256(pre_key \o srp_key)
            /\ auth.encryption \in {ENCRYPTION_AES256_GCM, ENCRYPTION_CHACHA20_POLY1305}
            /\ \A other \in EcdhKeys(auth) :
                   other # pre_key => BLAKE2s256(other \o srp_key) # auth.session_key
            /\ \A A \in 1 .. auth.N - 1 :
                   LET other == createSrpKey([auth EXCEPT !.A = A])
                   IN  other # srp_key =>
                           BLAKE2s256(pre_key \o other) # auth.session_key

\* an ECDH key and an SRP key were mixed under AES
C17_Witness ==
    /\ SrpMixed(auth)
    /\ EcdhKey(auth) # Empty
    /\ auth.encryption = ENCRYPTION_AES256_GCM
    /\ auth.session_key = BLAKE2s256(EcdhKey(auth) \o createSrpKey(auth))

---------------------------------------------------------------------------
(* C18: when a SessionResponse with a one-bit mask is accepted, the        *)
(* recorded session_type is that mask itself, the numeric value of the     *)
(* bit: with permitted session_types 0b0101 and the answer 0b0100 an       *)
(* anonymous handshake ends with SUCCESS and session_type = 4              *)

\* as stated: the recorded session_type is the position of the bit
C18_BitIndex ==
    auth.result = "SUCCESS" => auth.session_type = BitIndex(ResponseMask(auth))

C18_MaskValue ==
    /\ auth.result = "SUCCESS" =>
           /\ HandledResponse(auth)
           /\ BitCount(ResponseMask(auth)) = 1
           /\ auth.session_type = ResponseMask(auth)
    /\ (/\ auth.state = "DONE"
        /\ auth.identify = IDENTIFY_ANONYMOUS
        /\ auth.session_types = 5
        /\ HandledResponse(auth)
        /\ ResponseMask(auth) = 4) =>
           (auth.result = "SUCCESS" /\ auth.session_type = 4)

\* the anonymous handshake of the example
C18_Witness ==
    /\ auth.identify = IDENTIFY_ANONYMOUS
    /\ auth.session_types = 5
    /\ HandledResponse(auth)
    /\ ResponseMask(auth) = 4
    /\ auth.result = "SUCCESS"
    /\ auth.session_type = 4
    /\ ~aes_ni

---------------------------------------------------------------------------
(* C19: a handshake that finishes with SUCCESS has a non-empty session_key *)
(* and has called onSessionKeyChanged at least once, whichever identify    *)
(* method was used                                                         *)

C19_SuccessHasKey ==
    auth.result = "SUCCESS" =>
        /\ auth.session_key # Empty
        /\ auth.key_changes >= 1

\* the part that holds: an SRP handshake always has a key
C19_SrpSuccessHasKey ==
    (auth.result = "SUCCESS" /\ auth.identify = IDENTIFY_SRP) =>
        /\ auth.session_key # Empty
        /\ auth.key_changes >= 1
        /\ auth.channel_key = auth.session_key

---------------------------------------------------------------------------
(* C20: the cipher the server records and announces in ServerHello is one  *)
(* of the ciphers of the client's mask, whatever the mask and whether or   *)
(* not the host has AES hardware support                                   *)

C20_CipherOffered ==
    (Len(auth.wire) >= 2 /\ auth.wire[2].kind = "ServerHello") =>
        /\ auth.wire[2].msg.encryption = auth.encryption
        /\ BitAnd(auth.wire[1].msg.encryption, auth.encryption) # 0

---------------------------------------------------------------------------
(* C21: whatever the client does and however the callbacks of the channel  *)
(* interleave, onReceived runs only in one of the four read states and     *)
(* onWritten only in one of the three send states: no step is the default  *)
(* branch of a dispatcher                                                  *)

SendStates == {"SEND_SERVER_HELLO", "SEND_SERVER_KEY_EXCHANGE", "SEND_SESSION_CHALLENGE"}

\* the step is the default branch of onReceived
ReceivedDefault ==
    /\ auth.state = "PENDING"
    /\ auth.internal_state \notin ReadStates
    /\ ~auth.notreached
    /\ auth' = [auth EXCEPT !.notreached = TRUE]

\* the step is the outer default branch of onWritten
WrittenDefault ==
    /\ auth.state = "PENDING"
    /\ auth.internal_state \notin SendStates
    /\ auth.pending_write
    /\ ~auth.notreached
    /\ auth' = [auth EXCEPT !.pending_write = FALSE, !.notreached = TRUE]

C21_DispatchInRange == [][~ReceivedDefault /\ ~WrittenDefault]_vars

\* the part that holds: a write completion is outstanding only in a send state
C21_WrittenInSendState ==
    (auth.state = "PENDING" /\ auth.pending_write) => auth.internal_state \in SendStates

====
